---- MODULE Spec2Model ----
(***************************************************************************)
(* kaze: a named shared-memory channel with two SPSC rings (net side and   *)
(* host side), each a header {size, head, tail, used, need} followed by    *)
(* size payload bytes, coordinated by futex waits on the used and need     *)
(* cells.  Model of src/core/kaze.h.                                       *)
(*                                                                         *)
(* Spec      the ring protocol: one producer process and one consumer      *)
(*           process, both attached (the sidecar pushing to the host or    *)
(*           the host to the sidecar), interleaved at the granularity of   *)
(*           the loads, stores and atomic read-modify-writes of the code.  *)
(* FairSpec  Spec with weak fairness on the steps each process takes       *)
(*           inside a call (the scheduler runs every runnable process).    *)
(* SpecOpen  the attach handshake: two processes calling kz_open on a      *)
(*           channel the sidecar created.                                  *)
(* SpecNew   creation: two processes calling kz_new on the same free name. *)
(***************************************************************************)
EXTENDS Integers, Sequences, FiniteSets, TLC

(* ---------------------------------------------------------------- bounds *)

\* Ring capacities range over 4, 8, .. 4 * MaxCapWords bytes.
MaxCapWords == 3

\* Messages committed to a ring in one run.
MaxMsgs == 2

(* ------------------------------------------------------------- constants *)

KZ_OK == 0
KZ_FAIL == -1
KZ_TOOBIG == -2
KZ_BUSY == -3
KZ_TIMEOUT == -4

\* sizeof(uint32_t)
KZ_ALIGN == 4

\* Stands for the return value of a call that has not returned yet: a
\* number that is none of the KZ_ codes.
NoRet == KZ_OK + 1

\* Process ids (getpid()); 0 in a pid cell of the shared header means absent.
SidecarPid == 1
HostPid == 2
OtherPid == 3

RingNames == {"netside", "hostside"}

Capacities == {KZ_ALIGN * w : w \in 1..MaxCapWords}

(* ----------------------------------------------------------------- utils *)

\* A plausible slip: rounding down instead of up.
kz_get_aligned_size_down(size, align) == (size \div align) * align

\* (size + align - 1) & ~(align - 1), align a power of two.
kz_get_aligned_size(size, align) == ((size + align - 1) \div align) * align

kz_is_aligned_to(size, align) == size % align = 0

\* The four bytes memcpy'd for a little-endian uint32_t.
kz_write_u32le(n) ==
    << n % 256, (n \div 256) % 256, (n \div 65536) % 256, (n \div 16777216) % 256 >>

kz_read_u32le(b) == b[1] + 256 * b[2] + 65536 * b[3] + 16777216 * b[4]

\* A 32-bit cell is kept as the int32_t reading of its bit pattern, so that
\* 0 - 8 is the pattern 0xFFFFFFF8, read back as -8 by (int32_t) and unequal
\* to every small unsigned value.  Wrap-around at the int32_t ends is worked
\* out in pieces that stay within the checker's integers.
MaxInt32 == 2147483647

Sub32(a, b) ==
    IF a < (-MaxInt32 - 1) + b
    THEN (((a + MaxInt32) + 1) - b) + MaxInt32 + 1
    ELSE a - b

(* ----------------------------------------------------------- ring buffer *)

\* rb_init: the header of an empty ring over `size` bytes.
rb_init(rb, size) ==
    [rb EXCEPT !.size = size, !.head = 0, !.tail = 0, !.used = 0, !.need = 0]

\* The freshly mapped, zero-filled segment of a ring, stamped by rb_init.
NewRing(size) ==
    rb_init([size |-> 0, head |-> 0, tail |-> 0, used |-> 0, need |-> 0,
             data |-> [i \in 0..(size - 1) |-> 0]], size)

rb_used(rb) == rb.used

\* A plausible slip: the capacity is taken for the free space.
rb_space_size_whole(rb) == rb.size

\* A plausible slip: one word of the ring is never handed out.
rb_space_size_short(rb) == rb.size - rb_used(rb) - KZ_ALIGN

rb_space_size(rb) == rb.size - rb_used(rb)

\* need_size of rb_try_push, commit_size of rb_pop_commit.
FrameSize(len) == kz_get_aligned_size(len + KZ_ALIGN, KZ_ALIGN)

rb_too_big(rb, need_size) == need_size > rb.size

\* memcpy(dst + off, src, Len(src)) on the ring's bytes; a byte that would
\* land outside the ring's bytes is not part of the ring and is dropped here.
MemCpy(bytes, size, off, src) ==
    [i \in 0..(size - 1) |->
        IF i >= off /\ i < off + Len(src) THEN src[i - off + 1] ELSE bytes[i]]

\* A plausible slip: the wrapped remainder is copied from the start of the
\* payload again instead of from data + remain.
rb_write_nosplit(rb, payload) ==
    LET size   == Len(payload)
        start  == rb.tail + KZ_ALIGN
        end    == rb.size
        d1     == MemCpy(rb.data, rb.size, rb.tail, kz_write_u32le(size))
        remain == end - start
    IN  IF start + size <= end
        THEN [rb EXCEPT !.data = MemCpy(d1, rb.size, start, payload)]
        ELSE [rb EXCEPT !.data =
                MemCpy(MemCpy(d1, rb.size, start, SubSeq(payload, 1, remain)),
                       rb.size, 0, SubSeq(payload, 1, size - remain))]

\* "do the actual enqueuing": the length prefix at tail, then the payload in
\* one memcpy, or in two when it runs past the end of the ring.
rb_write(rb, payload) ==
    LET size   == Len(payload)
        start  == rb.tail + KZ_ALIGN
        end    == rb.size
        d1     == MemCpy(rb.data, rb.size, rb.tail, kz_write_u32le(size))
        remain == end - start
    IN  IF start + size <= end
        THEN [rb EXCEPT !.data = MemCpy(d1, rb.size, start, payload)]
        ELSE [rb EXCEPT !.data =
                MemCpy(MemCpy(d1, rb.size, start, SubSeq(payload, 1, remain)),
                       rb.size, 0, SubSeq(payload, remain + 1, size))]

\* A plausible slip: the cursor is not reduced modulo the capacity.
rb_advance_nowrap(pos, n, size) == pos + n

\* A plausible slip: the cursor moves on by one word, whatever the frame.
rb_advance_word(pos, n, size) == (pos + KZ_ALIGN) % size

\* hdr->tail = (hdr->tail + need_size) % hdr->size, and the same for head.
rb_advance(pos, n, size) == (pos + n) % size

\* A plausible slip: testing the value of used after the add (add_fetch)
\* where the code tests the value before it (fetch_add).
rb_push_wakes_new(old_used, need_size) == old_used + need_size = 0

\* "if (old_used == 0)": the push that makes an empty ring non-empty wakes
\* one sleeper on used.
rb_push_wakes(old_used, need_size) == old_used = 0

\* A plausible slip: storing the whole frame size, the value the waits of
\* kz_push and kz_push_until expect.
rb_addition_needed_full(need_size, free_size) == need_size

\* uint32_t addition_needed = (uint32_t)(need_size - free_size)
rb_addition_needed(need_size, free_size) == need_size - free_size

\* rb_try_push run from entry to return with no step of another process in
\* between: the value returned and the ring it leaves.
rb_try_push(rb, payload) ==
    LET need_size == FrameSize(Len(payload))
        free_size == rb_space_size(rb)
    IN  IF rb_too_big(rb, need_size)
        THEN [ret |-> KZ_TOOBIG, rb |-> rb]
        ELSE IF free_size < need_size
        THEN [ret |-> KZ_BUSY,
              rb  |-> [rb EXCEPT !.need = rb_addition_needed(need_size, free_size)]]
        ELSE [ret |-> KZ_OK,
              rb  |-> [rb_write(rb, payload) EXCEPT
                         !.tail = rb_advance(rb.tail, need_size, rb.size),
                         !.used = rb.used + need_size]]

\* The length prefix rb_try_pop reads at head.
rb_read_len(rb) ==
    kz_read_u32le([i \in 1..KZ_ALIGN |-> rb.data[rb.head + i - 1]])

\* What rb_try_pop leaves in *data.
rb_pop_data(r, rb) ==
    [refer |-> r, size |-> rb_read_len(rb), head |-> rb.head + KZ_ALIGN]

\* A plausible slip: waking only when the deficit is exactly met.
kz_free_wakes_exact(new_need) == new_need = 0

\* "if ((int32_t)new_need <= 0)": the deficit is met, wake all on need.
kz_free_wakes(new_need) == new_need <= 0

\* memset(data, 0, sizeof(*data))
NoData == [refer |-> "NULL", size |-> 0, head |-> 0]

(* --------------------------------------------------------- received data *)

\* A byte read at offset off of the ring's bytes; OutOfRing stands for a
\* read past the last byte of the ring (whatever the mapping holds there).
OutOfRing == -1

ByteAt(rb, off) == IF off >= 0 /\ off < rb.size THEN rb.data[off] ELSE OutOfRing

kz_data_len(data) == data.size

kz_data_count(data, rb) ==
    IF data.refer = "NULL" THEN 0
    ELSE IF data.head + data.size < rb.size THEN 1 ELSE 2

\* *plen of kz_data_part(data, idx, &plen).
kz_data_part_len(data, rb, idx) ==
    LET cnt == kz_data_count(data, rb)
    IN  IF idx = 0
        THEN (IF cnt = 1 THEN data.size ELSE rb.size - data.size)
        ELSE data.size - (rb.size - data.head)

\* The offset into the ring's bytes of the pointer kz_data_part returns.
kz_data_part_off(data, rb, idx) == IF idx = 0 THEN data.head ELSE 0

\* The bytes of part idx, taken with its reported length.
kz_data_part(data, rb, idx) ==
    LET off == kz_data_part_off(data, rb, idx)
        len == kz_data_part_len(data, rb, idx)
    IN  [i \in 1..len |-> ByteAt(rb, off + i - 1)]

(* ------------------------------------------------------------- shm check *)

kz_is_sidecar(h, self_pid) == h.sidecar_pid = self_pid

kz_is_host(h, self_pid) == h.host_pid = self_pid

\* A plausible slip: both roles pick the net-side ring.
get_rb_fixed(h, self_pid, for_push) == "netside"

get_rb(h, self_pid, for_push) ==
    IF kz_is_sidecar(h, self_pid) = for_push THEN "netside" ELSE "hostside"

(* ------------------------------------------------------------------ state *)

VARIABLES
    hdr,      \* kz_StateHdr in the shared region: sidecar_pid, host_pid
    rings,    \* the two ring segments of the shared region
    linked,   \* the OS name of the shared object exists
    prod,     \* the process that pushes: position and locals
    cons,     \* the process that pops: position and locals
    opener,   \* the processes in kz_open: position of each
    sent,     \* payloads committed by the producer, oldest first
    rcvd,     \* frames obtained by the consumer, oldest first
    creator   \* the processes in kz_new: position and arguments of each

vars == << hdr, rings, linked, prod, cons, opener, sent, rcvd, creator >>


RingOf(r) == rings[r]

\* The ring a process pushes to, and the ring it pops from.
PushRing == get_rb(hdr, prod.self_pid, TRUE)
PopRing == get_rb(hdr, cons.self_pid, FALSE)

\* Payload lengths offered to a push on a ring of `size` bytes: for every
\* frame size the shortest and the longest payload it holds (lengths 4k - 3
\* and 4k: most and no padding), from the empty payload up to size - 4, the
\* largest that fits, and size - 3, the smallest that does not.
Lengths(size) == {len \in 0..(size - 3) : len % KZ_ALIGN \in {0, 1}}

\* The k-th message of a run carries bytes tagged with k, so that any two
\* messages of a run differ and so do the bytes within one message.
Payload(len, k) == [i \in 1..len |-> (16 * k + i) % 256]

\* The consumer holds a frame: *data was filled by rb_try_pop and has not
\* been zeroed by kz_data_free yet.
Holding == cons.data.refer # "NULL"

\* Pop commits (rb_pop_commit's subtraction from used) so far.
Commits == Len(rcvd) - (IF Holding THEN 1 ELSE 0)

(* ---------------------------------------------------------------- futex *)

\* A plausible slip: sleeping whatever the cell holds.
futex_parks_always(cell, ifValue) == TRUE

\* FUTEX_WAIT / os_sync_wait_on_address: the kernel compares the cell with
\* ifValue and puts the caller to sleep in one atomic step iff they are
\* equal; otherwise kz_futex_wait returns 0 at once ("ifValue did not match").
futex_parks(cell, ifValue) == cell = ifValue

\* kz_futex_wake: FUTEX_WAKE returns the number of sleepers it released;
\* the code turns 0 released into -1 and any positive count into 0 (and, on
\* macOS, ENOENT "none to wake up" into -1).
kz_futex_wake(woken) == IF woken = 0 THEN -1 ELSE 0

\* The processes asleep in kz_futex_wait on the used cell / the need cell of
\* the ring in use: the consumer sleeps on used, the producer on need.
SleepersOnUsed == IF cons.pc = "parked" THEN 1 ELSE 0
SleepersOnNeed == IF prod.pc = "parked" THEN 1 ELSE 0

(* ------------------------------------------------------------- producer *)

ProdIdle(self_pid) ==
    [pc |-> "idle", self_pid |-> self_pid, op |-> "none", data |-> << >>,
     need_size |-> 0, free_size |-> 0, old_used |-> 0, ret |-> NoRet,
     stage |-> 0, commits0 |-> 0, wake_ret |-> NoRet]

\* wake_ret is the value the last kz_futex_wake of the process returned; the
\* callers of kz_futex_wake do not look at it.

\* commits0 is not a local of the code: it remembers, for the length of a
\* kz_push_until call, how many pops had been committed when it was entered.

\* The call returns r: its locals die, its arguments and result stay visible.
PReturn(p, r) ==
    [p EXCEPT !.pc = "idle", !.ret = r, !.need_size = 0, !.free_size = 0,
              !.old_used = 0, !.stage = 0, !.commits0 = 0]

\* rb_try_push returned KZ_BUSY to kz_try_push, kz_push or kz_push_until.
PBusy(p) ==
    IF p.op = "push" \/ (p.op = "push_until" /\ p.stage = 1)
    THEN [p EXCEPT !.pc = "wait"]
    ELSE PReturn(p, KZ_BUSY)

\* kz_futex_wait returned 0 (woken, or the value did not match): kz_push
\* loops, kz_push_until makes its second and last rb_try_push.
PRetry(p) ==
    [p EXCEPT !.pc = "try_size", !.stage = IF p.op = "push_until" THEN 2 ELSE 1]

\* kz_futex_wait returned: kz_pop loops, kz_pop_until makes its second and
\* last rb_try_pop.
CRetry(c) ==
    [c EXCEPT !.pc = "pop_load", !.stage = IF c.op = "pop_until" THEN 2 ELSE 1]

\* kz_try_push / kz_push / kz_push_until entered with a payload.
PCall ==
    /\ prod.pc = "idle"
    /\ Len(sent) < MaxMsgs
    /\ \E op \in {"try_push", "push", "push_until"} :
       \E len \in Lengths(RingOf(PushRing).size) :
          prod' = [prod EXCEPT
                     !.pc = IF op = "push_until" THEN "until_size" ELSE "try_size",
                     !.op = op,
                     !.data = Payload(len, Len(sent) + 1),
                     !.need_size = FrameSize(len),
                     !.ret = NoRet,
                     !.stage = 1,
                     !.commits0 = IF op = "push_until" THEN Commits ELSE 0,
                     !.wake_ret = NoRet]
    /\ UNCHANGED << hdr, rings, linked, cons, opener, sent, rcvd, creator >>

\* kz_push_until's own size check, before its first rb_try_push.
PUntilSize ==
    /\ prod.pc = "until_size"
    /\ prod' = IF rb_too_big(RingOf(PushRing), prod.need_size)
               THEN PReturn(prod, KZ_TOOBIG)
               ELSE [prod EXCEPT !.pc = "try_size"]
    /\ UNCHANGED << hdr, rings, linked, cons, opener, sent, rcvd, creator >>

\* rb_try_push: "check if there is enough space", the capacity part.
PCheckSize ==
    /\ prod.pc = "try_size"
    /\ prod' = IF rb_too_big(RingOf(PushRing), FrameSize(Len(prod.data)))
               THEN PReturn(prod, KZ_TOOBIG)
               ELSE [prod EXCEPT !.pc = "try_load"]
    /\ UNCHANGED << hdr, rings, linked, cons, opener, sent, rcvd, creator >>

\* rb_try_push: free_size = rb_space_size(rb), the acquire load of used.
PLoadUsed ==
    /\ prod.pc = "try_load"
    /\ LET free_size == rb_space_size(RingOf(PushRing))
       IN  prod' = [prod EXCEPT
                      !.free_size = free_size,
                      !.pc = IF free_size < FrameSize(Len(prod.data))
                             THEN "try_need" ELSE "try_write"]
    /\ UNCHANGED << hdr, rings, linked, cons, opener, sent, rcvd, creator >>

\* rb_try_push: the release store of the deficit to need, then KZ_BUSY.
PStoreNeed ==
    /\ prod.pc = "try_need"
    /\ rings' = [rings EXCEPT ![PushRing].need =
                    rb_addition_needed(FrameSize(Len(prod.data)), prod.free_size)]
    /\ prod' = PBusy(prod)
    /\ UNCHANGED << hdr, linked, cons, opener, sent, rcvd, creator >>

\* rb_try_push: the length prefix and the payload are copied into the ring.
PWrite ==
    /\ prod.pc = "try_write"
    /\ rings' = [rings EXCEPT ![PushRing] = rb_write(@, prod.data)]
    /\ prod' = [prod EXCEPT !.pc = "try_tail"]
    /\ UNCHANGED << hdr, linked, cons, opener, sent, rcvd, creator >>

\* rb_try_push: the plain store to tail.
PTail ==
    /\ prod.pc = "try_tail"
    /\ rings' = [rings EXCEPT ![PushRing].tail =
                    rb_advance(@, FrameSize(Len(prod.data)), RingOf(PushRing).size)]
    /\ prod' = [prod EXCEPT !.pc = "try_used"]
    /\ UNCHANGED << hdr, linked, cons, opener, sent, rcvd, creator >>

\* rb_try_push: old_used = fetch_add(&used, need_size).  From here on the
\* push is bound to return KZ_OK: the message is committed.
PAddUsed ==
    /\ prod.pc = "try_used"
    /\ LET old_used == RingOf(PushRing).used
       IN  /\ rings' = [rings EXCEPT ![PushRing].used =
                           old_used + FrameSize(Len(prod.data))]
           /\ prod' = IF rb_push_wakes(old_used, FrameSize(Len(prod.data)))
                      THEN [prod EXCEPT !.old_used = old_used, !.pc = "try_wake"]
                      ELSE PReturn(prod, KZ_OK)
    /\ sent' = Append(sent, prod.data)
    /\ UNCHANGED << hdr, linked, cons, opener, rcvd, creator >>

\* rb_try_push: kz_futex_wake(&hdr->used, 0) releases a consumer asleep on
\* used, which then leaves kz_futex_wait and tries again.
PWake ==
    /\ prod.pc = "try_wake"
    /\ cons' = IF cons.pc = "parked" THEN CRetry(cons) ELSE cons
    /\ prod' = [PReturn(prod, KZ_OK) EXCEPT
                  !.wake_ret = kz_futex_wake(SleepersOnUsed)]
    /\ UNCHANGED << hdr, rings, linked, opener, sent, rcvd, creator >>

\* kz_push / kz_push_until: kz_futex_wait(&need, need_size, millis).
PWait ==
    /\ prod.pc = "wait"
    /\ prod' = IF futex_parks(RingOf(PushRing).need, prod.need_size)
               THEN [prod EXCEPT !.pc = "parked"]
               ELSE PRetry(prod)
    /\ UNCHANGED << hdr, rings, linked, cons, opener, sent, rcvd, creator >>

\* The timeout of kz_push_until expires while the producer sleeps:
\* kz_futex_wait returns -1 with errno ETIMEDOUT.  (kz_push waits without a
\* timeout, or for INT_MAX milliseconds.)
PTimeout ==
    /\ prod.pc = "parked"
    /\ prod.op = "push_until"
    /\ prod' = PReturn(prod, KZ_TIMEOUT)
    /\ UNCHANGED << hdr, rings, linked, cons, opener, sent, rcvd, creator >>

\* kz_delete: shm_unlink(S->name) if the caller is the sidecar.  kz_new
\* copies the name_len bytes of the name into S->name and never writes the
\* terminating 0: the byte after the name is whatever malloc left there.
\* When it is 0, S->name is the name and the name is removed; otherwise
\* shm_unlink is given a longer string and the name of the channel stays.
kz_delete_unlink(h, self_pid, is_linked, terminated) ==
    IF kz_is_sidecar(h, self_pid) /\ terminated THEN FALSE ELSE is_linked

\* kz_delete by the pushing process, between two of its calls: the name is
\* unlinked if the caller is the sidecar; the mapping, the descriptor and S
\* are released.  Nothing in the shared region is written.
PDelete ==
    /\ prod.pc = "idle"
    /\ prod' = [prod EXCEPT !.pc = "deleted"]
    /\ \E terminated \in BOOLEAN :
          linked' = kz_delete_unlink(hdr, prod.self_pid, linked, terminated)
    /\ UNCHANGED << hdr, rings, cons, opener, sent, rcvd, creator >>


(* ------------------------------------------------------------- consumer *)

ConsIdle(self_pid) ==
    [pc |-> "idle", self_pid |-> self_pid, op |-> "none", data |-> NoData,
     used_size |-> 0, refer |-> "NULL", fsize |-> 0, new_need |-> 0,
     ret |-> NoRet, stage |-> 0, wake_ret |-> NoRet]

CReturn(c, r) ==
    [c EXCEPT !.pc = "idle", !.ret = r, !.used_size = 0, !.stage = 0]

\* rb_try_pop returned KZ_BUSY to kz_try_pop, kz_pop or kz_pop_until.
CBusy(c) ==
    IF c.op = "pop" \/ (c.op = "pop_until" /\ c.stage = 1)
    THEN [c EXCEPT !.pc = "wait", !.used_size = 0]
    ELSE CReturn(c, KZ_BUSY)

\* The frame at head as the consumer reads it: the length prefix L and the
\* L payload bytes that follow it, byte-wise around the ring from head + 4.
FrameAt(rb) ==
    [i \in 1..rb_read_len(rb) |-> rb.data[(rb.head + KZ_ALIGN + i - 1) % rb.size]]

\* kz_try_pop / kz_pop / kz_pop_until entered.
CCall ==
    /\ cons.pc = "idle"
    /\ \E op \in {"try_pop", "pop", "pop_until"} :
          cons' = [cons EXCEPT !.pc = "pop_load", !.op = op, !.ret = NoRet,
                               !.stage = 1, !.wake_ret = NoRet]
    /\ UNCHANGED << hdr, rings, linked, prod, opener, sent, rcvd, creator >>

\* kz_try_pop called again on the same *data while the frame it holds has
\* not been freed.
CCallAgain ==
    /\ cons.pc = "have"
    /\ cons' = [cons EXCEPT !.pc = "pop_load", !.op = "try_pop", !.ret = NoRet,
                            !.stage = 1, !.wake_ret = NoRet]
    /\ UNCHANGED << hdr, rings, linked, prod, opener, sent, rcvd, creator >>

\* rb_try_pop: used_size = rb_used(rb), the acquire load; 0 is KZ_BUSY.
CLoadUsed ==
    /\ cons.pc = "pop_load"
    /\ LET used_size == rb_used(RingOf(PopRing))
       IN  cons' = IF used_size = 0
                   THEN CBusy(cons)
                   ELSE [cons EXCEPT !.used_size = used_size, !.pc = "pop_read"]
    /\ UNCHANGED << hdr, rings, linked, prod, opener, sent, rcvd, creator >>

\* rb_try_pop: "read the size of the data" and fill *data; KZ_OK.  The
\* caller now holds the frame at head.  In rcvd, a frame read again before
\* it was freed takes the place of its earlier reading.
CRead ==
    /\ cons.pc = "pop_read"
    /\ cons' = [cons EXCEPT !.data = rb_pop_data(PopRing, RingOf(PopRing)),
                            !.pc = "have", !.ret = KZ_OK, !.used_size = 0,
                            !.stage = 0]
    /\ rcvd' = IF Holding
               THEN [rcvd EXCEPT ![Len(rcvd)] = FrameAt(RingOf(PopRing))]
               ELSE Append(rcvd, FrameAt(RingOf(PopRing)))
    /\ UNCHANGED << hdr, rings, linked, prod, opener, sent, creator >>

\* kz_data_free -> rb_pop_commit: the plain store to head.
CFreeHead ==
    /\ cons.pc = "have"
    /\ LET r == cons.data.refer
       IN  rings' = [rings EXCEPT ![r].head =
                        rb_advance(@, FrameSize(cons.data.size), RingOf(r).size)]
    /\ cons' = [cons EXCEPT !.pc = "free_used", !.fsize = cons.data.size]
    /\ UNCHANGED << hdr, linked, prod, opener, sent, rcvd, creator >>

\* kz_data_free -> rb_pop_commit: fetch_sub(&used, commit_size); then *data
\* is zeroed.
CFreeUsed ==
    /\ cons.pc = "free_used"
    /\ LET r == cons.data.refer
       IN  rings' = [rings EXCEPT ![r].used = @ - FrameSize(cons.data.size)]
    /\ cons' = [cons EXCEPT !.pc = "free_need", !.data = NoData,
                            !.refer = cons.data.refer]
    /\ UNCHANGED << hdr, linked, prod, opener, sent, rcvd, creator >>

\* kz_data_free: new_need = sub_fetch(&need, size); a wake follows iff
\* (int32_t)new_need <= 0.
CFreeNeed ==
    /\ cons.pc = "free_need"
    /\ LET r == cons.refer
           new_need == Sub32(RingOf(r).need, FrameSize(cons.fsize))
       IN  /\ rings' = [rings EXCEPT ![r].need = new_need]
           /\ cons' = IF kz_free_wakes(new_need)
                      THEN [cons EXCEPT !.pc = "free_wake", !.new_need = new_need]
                      ELSE [ConsIdle(cons.self_pid) EXCEPT !.op = "data_free"]
    /\ UNCHANGED << hdr, linked, prod, opener, sent, rcvd, creator >>

\* kz_data_free: kz_futex_wake(&hdr->need, 1) releases a producer asleep on
\* need, which then leaves kz_futex_wait and tries again.
CFreeWake ==
    /\ cons.pc = "free_wake"
    /\ prod' = IF prod.pc = "parked" THEN PRetry(prod) ELSE prod
    /\ cons' = [ConsIdle(cons.self_pid) EXCEPT
                  !.op = "data_free",
                  !.wake_ret = kz_futex_wake(SleepersOnNeed)]
    /\ UNCHANGED << hdr, rings, linked, opener, sent, rcvd, creator >>

\* kz_pop / kz_pop_until: kz_futex_wait(&used, 0, millis); the return value
\* is not looked at, rb_try_pop comes next.
CWait ==
    /\ cons.pc = "wait"
    /\ cons' = IF futex_parks(RingOf(PopRing).used, 0)
               THEN [cons EXCEPT !.pc = "parked"]
               ELSE CRetry(cons)
    /\ UNCHANGED << hdr, rings, linked, prod, opener, sent, rcvd, creator >>

\* The timeout of kz_pop_until expires while the consumer sleeps.
CTimeout ==
    /\ cons.pc = "parked"
    /\ cons.op = "pop_until"
    /\ cons' = CRetry(cons)
    /\ UNCHANGED << hdr, rings, linked, prod, opener, sent, rcvd, creator >>

\* kz_delete by the popping process, between two of its calls.
CDelete ==
    /\ cons.pc = "idle"
    /\ cons' = [cons EXCEPT !.pc = "deleted"]
    /\ \E terminated \in BOOLEAN :
          linked' = kz_delete_unlink(hdr, cons.self_pid, linked, terminated)
    /\ UNCHANGED << hdr, rings, prod, opener, sent, rcvd, creator >>

(* -------------------------------------------------- the ring protocol *)

OpenerPids == {HostPid, OtherPid}

\* The processes that call kz_new on the name.
CreatorPids == {SidecarPid, OtherPid}

\* A process and its kz_new: where it is, and the capacities it asked for.
NewIdle(pc) == [pc |-> pc, netsize |-> 0, hostsize |-> 0]

\* After kz_new by the sidecar and kz_open by the host: both rings empty
\* and of the same capacity.  One of the two processes pushes and the other
\* pops.
Init ==
    /\ hdr = [sidecar_pid |-> SidecarPid, host_pid |-> HostPid]
    /\ \E cap \in Capacities : rings = [r \in RingNames |-> NewRing(cap)]
    /\ linked = TRUE
    /\ \E pusher \in {SidecarPid, HostPid} :
          /\ prod = ProdIdle(pusher)
          /\ cons = ConsIdle(IF pusher = SidecarPid THEN HostPid ELSE SidecarPid)
    /\ opener = [p \in OpenerPids |-> "none"]
    /\ sent = << >>
    /\ rcvd = << >>
    /\ creator = [p \in CreatorPids |-> NewIdle("none")]

\* The steps a process takes inside a call it has entered.
ProducerRun ==
    \/ PUntilSize \/ PCheckSize \/ PLoadUsed \/ PStoreNeed \/ PWrite
    \/ PTail \/ PAddUsed \/ PWake \/ PWait

ConsumerRun ==
    \/ CLoadUsed \/ CRead \/ CFreeHead \/ CFreeUsed \/ CFreeNeed
    \/ CFreeWake \/ CWait

Next ==
    \/ PCall \/ PUntilSize \/ PCheckSize \/ PLoadUsed \/ PStoreNeed \/ PWrite
    \/ PTail \/ PAddUsed \/ PWake \/ PWait \/ PTimeout \/ PDelete
    \/ CCall \/ CCallAgain \/ CLoadUsed \/ CRead \/ CFreeHead \/ CFreeUsed
    \/ CFreeNeed \/ CFreeWake \/ CWait \/ CTimeout \/ CDelete

Spec == Init /\ [][Next]_vars

FairSpec == Spec /\ WF_vars(ProducerRun) /\ WF_vars(ConsumerRun)


(* ===================================================== properties ====== *)

IsPrefix(s, t) == Len(s) <= Len(t) /\ \A i \in 1..Len(s) : s[i] = t[i]

Net == rings["netside"]

\* C1: FIFO delivery on one ring.  In every state reached by interleaving
\* the steps of the producer's kz_try_push / kz_push / kz_push_until with
\* the steps of the consumer's kz_try_pop / kz_pop / kz_pop_until and
\* kz_data_free, the frames the consumer has obtained (length prefix and
\* payload bytes read ring-wise from head + 4) are a prefix of the payloads
\* whose push was committed, in order and unaltered.
C1_Fifo == IsPrefix(rcvd, sent)

\* Two messages were in the ring together and the second, whose payload
\* runs past the end of the ring and continues at offset 0, is now held.
C1_Witness ==
    /\ cons.pc = "have"
    /\ Len(rcvd) = 2
    /\ rcvd = sent
    /\ cons.data.head < Net.size
    /\ cons.data.head + cons.data.size > Net.size

\* C2: in every reachable state of a ring, the states between a cursor
\* update and the matching update of used included, 0 <= used <= capacity
\* and head and tail are multiples of 4 in [0, capacity).
C2_RingBounds ==
    \A r \in RingNames :
        /\ rings[r].used >= 0 /\ rings[r].used <= rings[r].size
        /\ kz_is_aligned_to(rings[r].head, KZ_ALIGN)
        /\ kz_is_aligned_to(rings[r].tail, KZ_ALIGN)
        /\ rings[r].head >= 0 /\ rings[r].head < rings[r].size
        /\ rings[r].tail >= 0 /\ rings[r].tail < rings[r].size

\* The producer has advanced tail (back to offset 0) and not yet added to
\* used, while the consumer has advanced head and not yet subtracted.
C2_Witness ==
    /\ prod.pc = "try_used"
    /\ cons.pc = "free_used"
    /\ Net.tail = 0
    /\ Net.head # 0
    /\ Len(sent) >= 1

\* The payload as the received-data API hands it out: the parts
\* kz_data_part(0 .. kz_data_count - 1), each with its reported length.
DataParts(data, rb) ==
    LET cnt == kz_data_count(data, rb)
    IN  IF cnt = 0 THEN << >>
        ELSE IF cnt = 1 THEN kz_data_part(data, rb, 0)
        ELSE kz_data_part(data, rb, 0) \o kz_data_part(data, rb, 1)

\* C3: round trip through the received-data API.  Whenever the consumer
\* holds the k-th popped frame, kz_data_len is the length of the k-th pushed
\* payload and the parts of kz_data_part, concatenated, are that payload.
C3_RoundTrip ==
    (cons.pc = "have" /\ Len(rcvd) <= Len(sent)) =>
        /\ kz_data_len(cons.data) = Len(sent[Len(rcvd)])
        /\ DataParts(cons.data, rings[cons.data.refer]) = sent[Len(rcvd)]


\* The consumer is inside kz_data_free with its subtraction from need, and
\* the wake on need that may follow it, still to come.
FreeInProgress == cons.pc \in {"free_need", "free_wake"}

\* The consumer sleeps on used although used is not 0, and the producer is
\* not about to issue a wake on used.
ConsumerStranded ==
    /\ cons.pc = "parked"
    /\ RingOf(PopRing).used # 0
    /\ prod.pc # "try_wake"

\* C4: no lost wakeup for the consumer.  The consumer never sleeps on used
\* while used is not 0 and no wake on used is coming; and whenever the
\* consumer is in kz_pop, past a failed rb_try_pop (before its wait or
\* asleep in it), and a push has been committed, it eventually returns KZ_OK
\* holding the oldest unconsumed message.
C4_ConsumerWakes ==
    /\ [] ~ConsumerStranded
    /\ (cons.op = "pop" /\ cons.pc \in {"wait", "parked"}
          /\ RingOf(PopRing).used # 0)
       ~> (cons.pc = "have" /\ cons.ret = KZ_OK
             /\ rcvd[Len(rcvd)] = sent[Len(rcvd)])

\* The consumer is asleep in kz_pop, a push has been committed, and the
\* producer is at its wake.
C4_Witness ==
    /\ cons.op = "pop"
    /\ cons.pc = "parked"
    /\ RingOf(PopRing).used # 0
    /\ prod.pc = "try_wake"

\* C5: no lost wakeup for the producer.  The producer is never left asleep
\* on need, in kz_push, while the ring has at least F free bytes for its
\* frame of F bytes and the consumer has no kz_data_free in progress that
\* could still wake it.
C5_ProducerWakes ==
    ~ /\ prod.pc = "parked"
      /\ prod.op = "push"
      /\ rb_space_size(RingOf(PushRing)) >= prod.need_size
      /\ ~FreeInProgress

\* C6: teardown releases blocked peers.  A step in which one peer completes
\* kz_delete leaves the other peer not asleep: the sleepers on used and on
\* need have been woken.
C6_TeardownReleases ==
    [][ /\ (prod.pc # "deleted" /\ prod'.pc = "deleted") => cons'.pc # "parked"
        /\ (cons.pc # "deleted" /\ cons'.pc = "deleted") => prod'.pc # "parked"
      ]_vars


(* -------------------------------------------------- the attach handshake *)

\* kz_open_raw gives up when the name cannot be opened, when the header
\* carries no creator, or when an attacher is recorded.
kz_open_refused(h, is_linked) ==
    \/ ~is_linked             \* shm_open(name, O_RDWR) fails
    \/ h.sidecar_pid = 0      \* EBADF
    \/ h.host_pid # 0         \* EBUSY

\* kz_open_raw, up to and including "if (S->hdr->host_pid != 0)": the
\* object is opened and mapped, the header validated, the attacher slot read.
OpenCheck(p) ==
    /\ opener[p] = "start"
    /\ opener' = [opener EXCEPT ![p] =
                     IF kz_open_refused(hdr, linked) THEN "failed" ELSE "checked"]
    /\ UNCHANGED << hdr, rings, linked, prod, cons, sent, rcvd, creator >>

\* kz_open_raw: S->hdr->host_pid = S->self_pid, a plain store.
OpenClaim(p) ==
    /\ opener[p] = "checked"
    /\ hdr' = [hdr EXCEPT !.host_pid = p]
    /\ opener' = [opener EXCEPT ![p] = "init_net"]
    /\ UNCHANGED << rings, linked, prod, cons, sent, rcvd, creator >>

\* kz_open_raw: rb_init(&S->netside, ...) on the header in the shared region.
OpenInitNet(p) ==
    /\ opener[p] = "init_net"
    /\ rings' = [rings EXCEPT !["netside"] = rb_init(@, @.size)]
    /\ opener' = [opener EXCEPT ![p] = "init_host"]
    /\ UNCHANGED << hdr, linked, prod, cons, sent, rcvd, creator >>

\* kz_open_raw: rb_init(&S->hostside, ...); kz_open returns S.
OpenInitHost(p) ==
    /\ opener[p] = "init_host"
    /\ rings' = [rings EXCEPT !["hostside"] = rb_init(@, @.size)]
    /\ opener' = [opener EXCEPT ![p] = "attached"]
    /\ UNCHANGED << hdr, linked, prod, cons, sent, rcvd, creator >>

\* kz_try_push by the sidecar, which may push as soon as kz_new returned.
SidecarTryPush ==
    /\ Len(sent) < MaxMsgs
    /\ \E len \in Lengths(RingOf(PushRing).size) :
          LET payload == Payload(len, Len(sent) + 1)
              res     == rb_try_push(RingOf(PushRing), payload)
          IN  /\ rings' = [rings EXCEPT ![PushRing] = res.rb]
              /\ prod' = [prod EXCEPT !.op = "try_push", !.data = payload,
                                      !.ret = res.ret]
              /\ sent' = IF res.ret = KZ_OK THEN Append(sent, payload) ELSE sent
    /\ UNCHANGED << hdr, linked, cons, opener, rcvd, creator >>

\* After kz_new by the sidecar: no attacher, both rings empty.
InitOpen ==
    /\ hdr = [sidecar_pid |-> SidecarPid, host_pid |-> 0]
    /\ \E cap \in Capacities : rings = [r \in RingNames |-> NewRing(cap)]
    /\ linked = TRUE
    /\ prod = ProdIdle(SidecarPid)
    /\ cons = ConsIdle(HostPid)
    /\ opener = [p \in OpenerPids |-> "start"]
    /\ sent = << >>
    /\ rcvd = << >>
    /\ creator = [p \in CreatorPids |-> NewIdle("none")]

NextOpen ==
    \/ \E p \in OpenerPids : OpenCheck(p)
    \/ \E p \in OpenerPids : OpenClaim(p)
    \/ \E p \in OpenerPids : OpenInitNet(p)
    \/ \E p \in OpenerPids : OpenInitHost(p)
    \/ SidecarTryPush

SpecOpen == InitOpen /\ [][NextOpen]_vars

\* The processes whose kz_open has claimed the attacher slot.
Attachers == {p \in OpenerPids : opener[p] \in {"init_net", "init_host", "attached"}}

\* C7: attach exclusivity.  Of two concurrent kz_open calls on the same
\* created channel at most one succeeds: never do two processes both hold
\* the channel as attacher.
C7_AttachExclusive == Cardinality(Attachers) <= 1


(* ------------------------------------------- properties of kz_try_push *)

\* The least multiple of a that is >= n.
AlignUp(n, a) == CHOOSE m \in n..(n + a - 1) : m % a = 0

\* The producer's step returns from the call it was in.
PReturns == prod.pc \notin {"idle", "deleted"} /\ prod'.pc = "idle"

\* C8: too-big rejection.  A kz_try_push that has returned, returned
\* KZ_TOOBIG iff align_up(4 + L, 4) > capacity, whatever the occupancy; and
\* no step the producer takes in or after a call with such a payload changes
\* head, tail, used, need or a payload byte of either ring.
C8_TooBig ==
    /\ [] ((prod.pc = "idle" /\ prod.op = "try_push") =>
             (prod.ret = KZ_TOOBIG <=>
                AlignUp(KZ_ALIGN + Len(prod.data), KZ_ALIGN)
                   > RingOf(PushRing).size))
    /\ [][ (prod' # prod /\ prod'.op = "try_push"
              /\ AlignUp(KZ_ALIGN + Len(prod'.data), KZ_ALIGN)
                    > RingOf(PushRing).size)
           => rings' = rings ]_vars

\* kz_try_push of capacity - 3 bytes has returned KZ_TOOBIG on a ring that
\* holds a message.
C8_Witness ==
    /\ prod.pc = "idle"
    /\ prod.op = "try_push"
    /\ prod.ret = KZ_TOOBIG
    /\ Len(prod.data) = RingOf(PushRing).size - 3
    /\ RingOf(PushRing).used > 0

\* The producer is in kz_try_push with the largest payload that fits.
LargestTryPush ==
    /\ prod.op = "try_push"
    /\ Len(prod.data) = RingOf(PushRing).size - KZ_ALIGN

\* C9: largest message.  kz_try_push of capacity - 4 bytes goes on to
\* enqueue iff used is 0 when it loads used, and then returns KZ_OK;
\* otherwise it returns KZ_BUSY.  The commit of an empty payload adds
\* exactly 4 to used.
C9_Largest ==
    /\ [][ (LargestTryPush /\ prod.pc = "try_load" /\ prod'.pc # "try_load")
           => prod'.pc = (IF RingOf(PushRing).used = 0
                          THEN "try_write" ELSE "try_need") ]_vars
    /\ [][ (LargestTryPush /\ PReturns)
           => prod'.ret = (IF prod.pc = "try_need" THEN KZ_BUSY ELSE KZ_OK) ]_vars
    /\ [][ (prod.pc = "try_used" /\ prod'.pc # "try_used" /\ Len(prod.data) = 0)
           => rings'[PushRing].used = rings[PushRing].used + 4 ]_vars

\* kz_try_push of capacity - 4 bytes has returned KZ_OK on a ring whose
\* cursors were not at offset 0: the frame fills the ring and wraps.
C9_Witness ==
    /\ prod.pc = "idle"
    /\ prod.op = "try_push"
    /\ prod.ret = KZ_OK
    /\ Len(prod.data) = RingOf(PushRing).size - KZ_ALIGN
    /\ RingOf(PushRing).used = RingOf(PushRing).size
    /\ RingOf(PushRing).head # 0

\* The free bytes of the push ring, not counting the frame the call in
\* progress has itself added to used.
FreeBeforeCall ==
    rb_space_size(RingOf(PushRing))
       + (IF prod.pc = "try_wake" THEN prod.need_size ELSE 0)

\* C10: timed push.  A kz_push_until never returns KZ_BUSY; and when its
\* frame of F <= capacity bytes finds less than F bytes free and no pop is
\* committed between its entry and its return, it returns KZ_TIMEOUT.
C10_TimedPush ==
    [][ (prod.op = "push_until" /\ PReturns) =>
           /\ prod'.ret # KZ_BUSY
           /\ ( /\ prod.commits0 = Commits
                /\ ~rb_too_big(RingOf(PushRing), prod.need_size)
                /\ FreeBeforeCall < prod.need_size )
              => prod'.ret = KZ_TIMEOUT ]_vars

(* ---------------------------------------------- properties of the waits *)

\* The consumer's step returns from kz_try_pop / kz_pop / kz_pop_until
\* without a frame.
CReturnsEmpty == cons.pc \in {"pop_load", "wait", "parked"} /\ cons'.pc = "idle"

\* C11: timed pop.  A kz_pop_until that returns without a frame returns
\* KZ_TIMEOUT: in particular when it was called on an empty ring and no push
\* completed before its timeout expired.  It never returns KZ_BUSY.
C11_TimedPop ==
    [][ (cons.op = "pop_until" /\ CReturnsEmpty) =>
           /\ cons'.ret # KZ_BUSY
           /\ cons'.ret = KZ_TIMEOUT ]_vars

\* C12: blocking push never spins.  When kz_push reaches its wait on need
\* with the cell still holding the deficit its rb_try_push stored (the
\* consumer has not touched need in between), the wait parks the producer:
\* the stored value is the expected value of the wait.
C12_PushParks ==
    [][ ( /\ prod.op = "push"
          /\ prod.pc = "wait"
          /\ prod'.pc # "wait"
          /\ RingOf(PushRing).need = prod.need_size - prod.free_size )
        => prod'.pc = "parked" ]_vars

(* ------------------------------------------------- properties of teardown *)

\* The process whose step this is completes kz_delete.
PDeletes == prod.pc # "deleted" /\ prod'.pc = "deleted"
CDeletes == cons.pc # "deleted" /\ cons'.pc = "deleted"

\* The effect the claim gives to kz_delete by the process with this pid: the
\* creator's removes the name, the attacher's leaves it; neither writes to
\* the rings.
DeleteAsClaimed(self_pid) ==
    /\ linked' = (IF self_pid = hdr.sidecar_pid THEN FALSE ELSE linked)
    /\ rings' = rings

\* C13: only the creator unlinks.  kz_delete removes the name of the channel
\* iff its caller is the creator; after kz_delete by the attacher the name
\* still exists and head, tail, used and need of both rings are unchanged.
C13_CreatorUnlinks ==
    [][ /\ PDeletes => DeleteAsClaimed(prod.self_pid)
        /\ CDeletes => DeleteAsClaimed(cons.self_pid) ]_vars

(* ------------------------------------------- properties of ring selection *)

\* The ring the claim assigns to a process: the creator writes the net-side
\* ring and reads the host-side ring, the attacher the other way round.
WriterRing(self_pid) == IF self_pid = hdr.sidecar_pid THEN "netside" ELSE "hostside"
ReaderRing(self_pid) == IF self_pid = hdr.sidecar_pid THEN "hostside" ELSE "netside"

\* C14: ring selection and independence.  A step of a push changes no ring
\* but the one its caller writes (net side for the sidecar, host side for the
\* host); a step of a pop commit changes no ring but the one its caller
\* reads (host side for the sidecar, net side for the host); and a pop hands
\* out the frame at the head of the ring its caller reads.
C14_RingSelection ==
    [][ /\ \A r \in RingNames :
              (prod' # prod /\ rings'[r] # rings[r]) => r = WriterRing(prod.self_pid)
        /\ \A r \in RingNames :
              (cons' # cons /\ rings'[r] # rings[r]) => r = ReaderRing(cons.self_pid)
        /\ (cons.pc = "pop_read" /\ cons'.pc = "have") =>
              /\ cons'.data.refer = ReaderRing(cons.self_pid)
              /\ rcvd'[Len(rcvd')] = FrameAt(rings[ReaderRing(cons.self_pid)])
      ]_vars

\* The host has pushed two messages and the sidecar, having freed the first,
\* holds the second, taken from the host-side ring; the net-side ring is as
\* kz_new left it.
C14_Witness ==
    /\ prod.self_pid = HostPid
    /\ cons.self_pid = SidecarPid
    /\ cons.pc = "have"
    /\ Len(rcvd) = 2
    /\ cons.data.refer = "hostside"
    /\ rings["hostside"].used > 0
    /\ rings["netside"] = NewRing(rings["netside"].size)

(* ------------------------------------------------------------- creation *)

\* A plausible slip: O_CREAT without O_EXCL, which opens an existing name.
kz_init_exists_never(is_linked) == FALSE

\* shm_open(filename, O_CREAT | O_EXCL | O_RDWR) fails iff the name exists;
\* kz_init then returns KZ_FAIL and kz_new returns NULL.
kz_init_exists(is_linked) == is_linked

\* kz_new -> kz_init, the exclusive shm_open: the name table is tested and
\* the name entered in one step of the operating system.  The new object has
\* size 0 (the st_size test that follows cannot fail on it).
NewShmOpen(p) ==
    /\ creator[p].pc = "start"
    /\ \E netsize \in Capacities, hostsize \in Capacities :
          IF kz_init_exists(linked)
          THEN /\ creator' = [creator EXCEPT ![p] = NewIdle("failed")]
               /\ linked' = linked
          ELSE /\ creator' = [creator EXCEPT ![p] =
                                 [pc |-> "created", netsize |-> netsize,
                                  hostsize |-> hostsize]]
               /\ linked' = TRUE
    /\ UNCHANGED << hdr, rings, prod, cons, opener, sent, rcvd >>

\* kz_init, the rest: ftruncate and mmap give a zero-filled region of the
\* computed size; the header is stamped with the creator's pid and no
\* attacher, and rb_init lays out the two rings.  kz_new returns S.
NewInit(p) ==
    /\ creator[p].pc = "created"
    /\ hdr' = [sidecar_pid |-> p, host_pid |-> 0]
    /\ rings' = [r \in RingNames |->
                    NewRing(IF r = "netside" THEN creator[p].netsize
                            ELSE creator[p].hostsize)]
    /\ creator' = [creator EXCEPT ![p].pc = "done"]
    /\ UNCHANGED << linked, prod, cons, opener, sent, rcvd >>

\* kz_try_push by a process whose kz_new returned a state.
CreatorTryPush(p) ==
    /\ creator[p].pc = "done"
    /\ Len(sent) < MaxMsgs
    /\ LET r == get_rb(hdr, p, TRUE)
       IN  \E len \in Lengths(RingOf(r).size) :
              LET payload == Payload(len, Len(sent) + 1)
                  res     == rb_try_push(RingOf(r), payload)
              IN  /\ rings' = [rings EXCEPT ![r] = res.rb]
                  /\ sent' = IF res.ret = KZ_OK THEN Append(sent, payload) ELSE sent
    /\ UNCHANGED << hdr, linked, prod, cons, opener, rcvd, creator >>

\* No region is mapped by anyone: nothing to read in the header or the rings.
NoRegion == [r \in RingNames |-> NewRing(0)]

\* The name is free and two processes are about to call kz_new on it.
InitNew ==
    /\ hdr = [sidecar_pid |-> 0, host_pid |-> 0]
    /\ rings = NoRegion
    /\ linked = FALSE
    /\ prod = ProdIdle(SidecarPid)
    /\ cons = ConsIdle(HostPid)
    /\ opener = [p \in OpenerPids |-> "none"]
    /\ sent = << >>
    /\ rcvd = << >>
    /\ creator = [p \in CreatorPids |-> NewIdle("start")]

NextNew ==
    \/ \E p \in CreatorPids : NewShmOpen(p)
    \/ \E p \in CreatorPids : NewInit(p)
    \/ \E p \in CreatorPids : CreatorTryPush(p)

SpecNew == InitNew /\ [][NextNew]_vars

\* head = tail = used = need = 0 and the capacity is `size`.
EmptyRingOf(rb, size) ==
    /\ rb.size = size
    /\ rb.head = 0 /\ rb.tail = 0 /\ rb.used = 0 /\ rb.need = 0

\* C15: exclusive creation.  The shm_open step of a kz_new on a name that
\* exists fails the call and changes neither the name table nor the header
\* nor the rings of the existing region; on a free name the call goes on, and
\* when it returns the region carries the caller's pid as creator, attacher
\* pid 0, and two rings with head = tail = used = need = 0 and the requested
\* capacities.  At no time have two calls on the name been let through.
C15_ExclusiveCreation ==
    /\ [] (Cardinality({p \in CreatorPids : creator[p].pc \in {"created", "done"}})
             <= 1)
    /\ [][ \A p \in CreatorPids :
              /\ (creator[p].pc = "start" /\ creator'[p].pc # "start") =>
                    IF linked
                    THEN /\ creator'[p].pc = "failed"
                         /\ hdr' = hdr /\ rings' = rings /\ linked' = linked
                    ELSE creator'[p].pc = "created"
              /\ (creator[p].pc = "created" /\ creator'[p].pc = "done") =>
                    /\ hdr'.sidecar_pid = p
                    /\ hdr'.host_pid = 0
                    /\ EmptyRingOf(rings'["netside"], creator[p].netsize)
                    /\ EmptyRingOf(rings'["hostside"], creator[p].hostsize)
          ]_vars

\* One kz_new has returned a region with rings of different capacities,
\* its creator has pushed into it, and the other kz_new has failed.
C15_Witness ==
    \E p \in CreatorPids, q \in CreatorPids :
        /\ creator[p].pc = "done"
        /\ creator[q].pc = "failed"
        /\ creator[p].netsize # creator[p].hostsize
        /\ rings["netside"].used > 0
        /\ hdr.sidecar_pid = p

(* ------------------------------------------- properties of the cursors *)

\* No push is between its store to tail and its add to used, and no pop
\* commit between its store to head and its subtraction from used.
Quiescent == prod.pc # "try_used" /\ cons.pc # "free_used"

\* C16, as stated: in every quiescent state (tail - head) mod capacity is
\* used, the completely full ring included.
C16_CursorsAsStated ==
    Quiescent =>
        \A r \in RingNames :
            (rings[r].tail - rings[r].head) % rings[r].size = rings[r].used

\* C16, amended: in every quiescent state (tail - head) mod capacity is
\* used mod capacity: it is used on every ring that is not full, and 0
\* (tail = head) both on the empty ring and on the full one, where used is
\* the capacity.
C16_Cursors ==
    Quiescent =>
        \A r \in RingNames :
            /\ (rings[r].tail - rings[r].head) % rings[r].size
                  = rings[r].used % rings[r].size
            /\ rings[r].used <= rings[r].size

\* A quiescent, completely full ring whose cursors have wrapped and meet
\* away from offset 0.
C16_Witness ==
    /\ Quiescent
    /\ RingOf(PushRing).used = RingOf(PushRing).size
    /\ RingOf(PushRing).tail = RingOf(PushRing).head
    /\ RingOf(PushRing).head # 0
    /\ Len(rcvd) >= 1

(* -------------------------------------------- properties of the spans *)

\* The payload bytes of the held frame begin before the end of the ring and
\* run past it.
Straddles(data, rb) == data.head < rb.size /\ data.head + data.size > rb.size

\* C17: span count on wrap-around.  For the frame the consumer holds,
\* kz_data_count is 2, with both parts non-empty and lengths that sum to L,
\* exactly when the payload straddles the end of the ring; otherwise it is 1
\* and the one part has length L (a payload that ends at the end of the ring,
\* a length prefix in the last 4 bytes of the ring, and L = 0 included).
C17_SpanCount ==
    cons.pc = "have" =>
        LET data == cons.data
            rb   == rings[cons.data.refer]
        IN  IF Straddles(data, rb)
            THEN /\ kz_data_count(data, rb) = 2
                 /\ kz_data_part_len(data, rb, 0) > 0
                 /\ kz_data_part_len(data, rb, 1) > 0
                 /\ kz_data_part_len(data, rb, 0) + kz_data_part_len(data, rb, 1)
                       = kz_data_len(data)
            ELSE /\ kz_data_count(data, rb) = 1
                 /\ kz_data_part_len(data, rb, 0) = kz_data_len(data)

(* ------------------------------------------ properties of the busy push *)

\* The producer is in kz_try_push with a frame that fits the capacity.
FittingTryPush ==
    /\ prod.op = "try_push"
    /\ FrameSize(Len(prod.data)) <= RingOf(PushRing).size

\* C18: busy push.  A kz_try_push whose frame of F <= capacity bytes finds
\* free = capacity - used < F when it loads used goes on to store
\* need = F - free and to return KZ_BUSY; the store changes nothing else of
\* the ring (head, tail, used and every byte stay), the other ring and the
\* consumer are left alone (no wake is issued), and the load changes nothing.
C18_BusyPush ==
    /\ [][ ( /\ FittingTryPush
             /\ prod.pc = "try_load" /\ prod'.pc # "try_load"
             /\ RingOf(PushRing).size - RingOf(PushRing).used
                   < FrameSize(Len(prod.data)) )
           => /\ prod'.pc = "try_need"
              /\ prod'.free_size = RingOf(PushRing).size - RingOf(PushRing).used
              /\ rings' = rings /\ cons' = cons ]_vars
    /\ [][ ( /\ FittingTryPush
             /\ prod.pc = "try_need" /\ prod'.pc # "try_need" )
           => /\ prod'.pc = "idle"
              /\ prod'.ret = KZ_BUSY
              /\ rings' = [rings EXCEPT ![PushRing].need =
                              FrameSize(Len(prod.data)) - prod.free_size]
              /\ cons' = cons ]_vars

\* kz_try_push has returned KZ_BUSY on a ring that is neither empty nor
\* full, and need holds the deficit it stored.
C18_Witness ==
    /\ prod.pc = "idle"
    /\ prod.op = "try_push"
    /\ prod.ret = KZ_BUSY
    /\ RingOf(PushRing).used > 0
    /\ RingOf(PushRing).used < RingOf(PushRing).size
    /\ RingOf(PushRing).need
          = FrameSize(Len(prod.data)) - rb_space_size(RingOf(PushRing))
    /\ RingOf(PushRing).need < FrameSize(Len(prod.data))

(* --------------------------------------- properties of the pop commit *)

\* C19: deficit wake.  kz_data_free of a frame of F bytes takes exactly F
\* from used and exactly F from need (need read as a signed 32-bit value:
\* 0 - F is -F, the pattern 2^32 - F), and goes on to wake the sleepers on
\* need iff the need it left is <= 0; the wake leaves no producer asleep.
\* In particular a need that was >= F and is now <= 0 is followed by a wake.
C19_DeficitWake ==
    /\ [][ (cons.pc = "free_used" /\ cons'.pc # "free_used") =>
              rings'[cons.data.refer].used
                 = rings[cons.data.refer].used - FrameSize(cons.data.size)
         ]_vars
    /\ [][ (cons.pc = "free_need" /\ cons'.pc # "free_need") =>
              /\ rings'[cons.refer].need
                    = rings[cons.refer].need - FrameSize(cons.fsize)
              /\ (cons'.pc = "free_wake") <=> (rings'[cons.refer].need <= 0)
         ]_vars
    /\ [][ (cons.pc = "free_wake" /\ cons'.pc # "free_wake") =>
              prod'.pc # "parked" ]_vars

\* The producer sleeps on need = F, the consumer has freed a frame of F
\* bytes, which took need from F to 0, and is at its wake.
C19_Witness ==
    /\ cons.pc = "free_wake"
    /\ cons.new_need = 0
    /\ RingOf(PushRing).need = 0
    /\ prod.pc = "parked"
    /\ prod.need_size = FrameSize(cons.fsize)

(* ------------------------------------------------ properties of the wake *)

\* C20: a wake with no sleepers is not an error.  Every kz_futex_wake the
\* producer issues on used and the consumer issues on need returns 0,
\* whether or not a process was asleep on the cell.
C20_WakeNoSleepers ==
    [][ /\ (prod.pc = "try_wake" /\ prod'.pc # "try_wake") =>
              prod'.wake_ret = KZ_OK
        /\ (cons.pc = "free_wake" /\ cons'.pc # "free_wake") =>
              cons'.wake_ret = KZ_OK ]_vars

(* ---------------------------------------------- properties of the attach *)

\* head, tail, used and need of a ring.
Cursors(rb) == << rb.head, rb.tail, rb.used, rb.need >>

\* The bytes the frames of these payloads take in a ring.
FramesOf(msgs) ==
    LET F[i \in 0..Len(msgs)] ==
            IF i = 0 THEN 0 ELSE F[i - 1] + FrameSize(Len(msgs[i]))
    IN  F[Len(msgs)]

\* C21: attach preserves ring contents.  No step of a kz_open changes head,
\* tail, used or need of either ring (the attacher slot of the header is all
\* it writes), so the messages the creator has pushed and nobody has popped
\* all stay in the net-side ring, to be delivered to the attacher: used is
\* the size of their frames.
C21_AttachPreserves ==
    /\ [][ (opener' # opener) =>
              \A r \in RingNames : Cursors(rings'[r]) = Cursors(rings[r]) ]_vars
    /\ [] (rcvd = << >> => rings["netside"].used = FramesOf(sent))

(* -------------------------------------- properties of the borrowed frame *)

\* The offsets of the unconsumed bytes of a ring: [head, head + used) taken
\* modulo the capacity.
Unconsumed(rb) == {(rb.head + i) % rb.size : i \in 0..(rb.used - 1)}

\* The consumer holds a frame and has not begun to free it.
Borrowing == Holding /\ cons.pc \in {"have", "pop_load", "pop_read"}

\* C22: borrowed frames are stable.  No step of rb_try_pop writes to a ring;
\* a kz_try_pop repeated while the frame is held hands out the same frame
\* (the same *data and the same bytes); and while the consumer holds a frame
\* it has not begun to free, no step changes a byte of the held frame or of
\* any other unconsumed frame of a ring.
C22_BorrowedStable ==
    /\ [][ (cons.pc \in {"pop_load", "pop_read"} /\ cons'.pc # cons.pc) =>
              rings' = rings ]_vars
    /\ [][ (Holding /\ cons.pc = "pop_read" /\ cons'.pc # "pop_read") =>
              /\ cons'.pc = "have"
              /\ cons'.ret = KZ_OK
              /\ cons'.data = cons.data
              /\ rcvd' = rcvd ]_vars
    /\ [][ Borrowing =>
              \A r \in RingNames : \A off \in Unconsumed(rings[r]) :
                  rings'[r].data[off] = rings[r].data[off] ]_vars

\* The consumer holds the first message and is in a repeated kz_try_pop,
\* about to read the frame again, while the producer has copied a second
\* message into the ring and not yet committed it.
C22_Witness ==
    /\ Holding
    /\ cons.pc = "pop_read"
    /\ prod.pc = "try_tail"
    /\ Len(sent) = 1
    /\ Len(rcvd) = 1
    /\ Len(prod.data) > 0

====
